---- MODULE Spec2Model ----
\* The items service of src/main.go: main connects the store (connectDB, three
\* attempts) and the cache (connectCache), then serves the five handlers
\* getItems, createItem, getItem, updateItem and deleteItem. Every handler is
\* split at its calls to the store and to the cache: gin runs each request in
\* its own goroutine, so these calls of different requests interleave, and
\* every such call may fail.
EXTENDS Integers, Sequences, FiniteSets, TLC

\* ---------------------------------------------------------------- bounds
MaxReq == 2        \* requests served in one run
MaxId == 2         \* identifiers 1..MaxId exist in the store and the cache

\* ------------------------------------------------------ program constants
MaxAttempts == 3   \* for i := 1; i <= 3; i++
TTL == 10          \* cache.Set(..., 10*time.Minute), in minutes

Names == {"a", "b"}
Ids == 1..MaxId
PathIds == 0..MaxId
ReqIds == 1..MaxReq
Absent == "absent"     \* a key the JSON body does not have
NoId == -1             \* the body has no "id" key
NoTime == -1           \* the body has no "created_at" key
\* a body ShouldBindJSON rejects
Malformed == [id |-> -2, name |-> "malformed", created |-> NoTime]
\* the empty JSON object
NoBody == [id |-> NoId, name |-> Absent, created |-> NoTime]
NoKey == <<>>
NilErr == <<"nil", 0>>

VARIABLES
    mainPc,    \* where main is: "env", "connectDB", "connectCache", "serve";
               \* part_004: "Open", "redis", "exit"; part_005: "dial"
    i,         \* connectDB: the loop variable
    err,       \* connectDB: the local err
    tries,     \* connectDB: the outcome of every attempt made, in order
    connRet,   \* what connectDB returned: <<"running",0>>, NilErr or an error
    db,        \* the global db: "nil" or "handle"
    cache,     \* the global cache: "nil" or "client"
    table,     \* the rows of the items table
    seq,       \* the next value of the table's id sequence
    kv,        \* the cache's content: kv[id] is the value under "item:"+id
    now,       \* the clock read by time.Now()
    reqs,      \* the requests: handler, position, locals and response
    nreq,      \* the number of requests started
    prog,      \* the main that runs: "main.go", "part_004" or "part_005"
    env,       \* the process environment read by os.Getenv
    dsn,       \* the connection string the connect function resolved
    logged,    \* the lines written to the log that show a connection string
    ttl        \* the cache's expiry: ttl[id] is the minutes "item:"+id has left

vars == <<mainPc, i, err, tries, connRet, db, cache, table, seq, kv, now, reqs, nreq,
          prog, env, dsn, logged, ttl>>

\* the settings, what was made of them and what was logged of it
cfgVars == <<prog, env, dsn, logged>>

\* ------------------------------------------------------------------ Item
ZeroItem == [id |-> 0, name |-> "", created |-> 0, updated |-> 0]

\* json.Marshal(item): the fields in declaration order
Marshal(item) == <<item.id, item.name, item.created, item.updated>>

\* c.ShouldBindJSON(&item): the keys present in the body overwrite the fields
\* a time a body names under "created_at": the creation time of no row
Times == {9}
Bodies ==
    {Malformed} \cup
    [id : {NoId} \cup Ids, name : {Absent} \cup Names, created : {NoTime} \cup Times]

Bind(item, body) ==
    [item EXCEPT !.id = IF body.id = NoId THEN @ ELSE body.id,
                 !.name = IF body.name = Absent THEN @ ELSE body.name,
                 !.created = IF body.created = NoTime THEN @ ELSE body.created]

\* ----------------------------------------------------------------- store
\* the store and the cache outlive the process: what an earlier run of the
\* service left there, a row created then and possibly its entry in the cache,
\* or a blank value another client of the cache has put under the key
OldRow == [id |-> 1, name |-> "a", created |-> 0, updated |-> 0]

Row(tbl, id) == {x \in tbl : x.id = id}

\* db.First(&item, id): the row with that primary key, or an error
dbFirst(tbl, id, ok) ==
    IF ok /\ Row(tbl, id) # {}
    THEN [err |-> FALSE, item |-> CHOOSE x \in Row(tbl, id) : TRUE]
    ELSE [err |-> TRUE, item |-> ZeroItem]

\* db.Create(&item): a zero ID is taken from the sequence; a duplicate key fails
dbCreate(tbl, sq, item, ok) ==
    LET id == IF item.id = 0 THEN sq ELSE item.id
        sq2 == IF ok /\ item.id = 0 THEN sq + 1 ELSE sq
    IN  IF ok /\ Row(tbl, id) = {}
        THEN [err |-> FALSE, table |-> tbl \cup {[item EXCEPT !.id = id]}, seq |-> sq2,
              item |-> [item EXCEPT !.id = id]]
        ELSE [err |-> TRUE, table |-> tbl, seq |-> sq2, item |-> item]

\* db.Save(&item): writes all fields of the row with item's primary key,
\* inserting the row when there is none (a zero ID is taken from the sequence)
dbSave(tbl, sq, item, ok) ==
    IF ~ok THEN [err |-> TRUE, table |-> tbl, seq |-> sq, item |-> item]
    ELSE IF item.id = 0 THEN dbCreate(tbl, sq, item, ok)
    ELSE [err |-> FALSE, table |-> (tbl \ Row(tbl, item.id)) \cup {item}, seq |-> sq,
          item |-> item]

\* db.Delete(&item): removes the row with item's primary key
dbDelete(tbl, item, ok) ==
    IF ok THEN [err |-> FALSE, table |-> tbl \ Row(tbl, item.id)]
    ELSE [err |-> TRUE, table |-> tbl]

\* db.Find(&items): all rows, none on error
dbFind(tbl, ok) ==
    IF ok THEN [err |-> FALSE, items |-> {Marshal(x) : x \in tbl}]
    ELSE [err |-> TRUE, items |-> {}]

\* ----------------------------------------------------------------- cache
\* cache.Get(ctx, "item:"+id).Result(): redis.Nil when the key is not there
cacheGet(m, id, ok) ==
    IF ok /\ id \in Ids /\ m[id] # NoKey
    THEN [err |-> "nil", val |-> m[id]]
    ELSE [err |-> IF ok THEN "redis.Nil" ELSE "error", val |-> NoKey]

\* values that are the empty string or nothing but white space
Blanks == {<<"">>, <<" ">>}

\* strings.TrimSpace(val)
TrimSpace(val) == IF val \in Blanks THEN <<"">> ELSE val

\* a test of a hit that takes whatever value the key has
cacheHitNoTrim(res) == res.err = "nil"

\* getItem's test of a hit: err == nil && strings.TrimSpace(val) != ""
cacheHit(res) == res.err = "nil" /\ TrimSpace(res.val) # <<"">>

\* cache.Set(ctx, "item:"+id, jsonItem, 10*time.Minute)
cacheSet(m, id, val, ok) == IF ok /\ id \in Ids THEN [m EXCEPT ![id] = val] ELSE m

\* cache.Del(ctx, "item:"+id)
cacheDel(m, id, ok) == IF ok /\ id \in Ids THEN [m EXCEPT ![id] = NoKey] ELSE m

\* the expiry cache.Set gives the key: 10*time.Minute
cacheSetTTL(t, id, ok) == IF ok /\ id \in Ids THEN [t EXCEPT ![id] = TTL] ELSE t

\* a key that cache.Del removed has no expiry
cacheDelTTL(t, id, ok) == IF ok /\ id \in Ids THEN [t EXCEPT ![id] = 0] ELSE t

\* -------------------------------------------------------------- requests
\* op, id, input: the handler, the path parameter, the body. pc: the handler's
\* position. item: the handler's local. status, body: the response.
\* pre: the row db.First read. storeErr, cacheErr: a call to the store (other
\* than a record not found) or to the cache returned an error. inval: the
\* handler's cache.Del succeeded. mutated: the handler has issued its db.Save
\* or db.Delete.
IdleReq ==
    [op |-> "none", id |-> 0, input |-> NoBody, pc |-> "idle", item |-> ZeroItem,
     pre |-> ZeroItem,
     status |-> 0, body |-> {}, solo |-> FALSE,
     storeErr |-> FALSE, cacheErr |-> FALSE, inval |-> FALSE, mutated |-> FALSE]

DoneReqs == {q \in ReqIds : reqs[q].pc = "done"}

\* a request arrives: the router calls the handler op with path parameter id.
\* solo: every earlier request has been answered
Arrive(r, op, id, body) ==
    [IdleReq EXCEPT !.op = op, !.id = id, !.input = body,
                    !.solo = (DoneReqs = 1..(r - 1))]

\* the handler writes its response and returns.
\* solo: and no later request arrived while this one ran
Respond(rec, r, status, body) ==
    [rec EXCEPT !.pc = "done", !.status = status, !.body = body,
                !.solo = @ /\ (nreq <= r)]

CanStart(r) == mainPc = "serve" /\ r = nreq + 1 /\ r <= MaxReq

\* --------------------------------------------------------------- strings
\* A string is the sequence of its parts: a key with its "=", a separator or
\* a value, none of them empty; the empty string is <<>>.
RECURSIVE Index(_, _, _)
\* strings.Index(s, old) searched from position k on; 0 when old is not there
Index(s, old, k) ==
    IF k + Len(old) - 1 > Len(s) THEN 0
    ELSE IF SubSeq(s, k, k + Len(old) - 1) = old THEN k
    ELSE Index(s, old, k + 1)

\* strings.Contains(s, sub)
Contains(s, sub) == Index(s, sub, 1) # 0

\* strings.Replace(s, old, new, 1), old not empty
Replace(s, old, new) ==
    LET k == Index(s, old, 1) IN
    IF k = 0 THEN s
    ELSE SubSeq(s, 1, k - 1) \o new \o SubSeq(s, k + Len(old), Len(s))

RECURSIVE ReplaceAll(_, _, _)
\* strings.ReplaceAll(s, old, new), old not empty
ReplaceAll(s, old, new) ==
    LET k == Index(s, old, 1) IN
    IF k = 0 THEN s
    ELSE SubSeq(s, 1, k - 1) \o new \o ReplaceAll(SubSeq(s, k + Len(old), Len(s)), old, new)

\* ------------------------------------------------------------ settings
\* "host=" + host + " user=" + user + " password=" + password + ...
KV(host, user, password, dbname, port, sslmode) ==
    <<"host=">> \o host \o <<" ", "user=">> \o user \o
    <<" ", "password=">> \o password \o <<" ", "dbname=">> \o dbname \o
    <<" ", "port=">> \o port \o <<" ", "sslmode=">> \o sslmode

\* the password the operator configured, in DB_PASSWORD or in DATABASE_URL
Secret == <<"s3cret">>

\* a DATABASE_URL in the URL form and one in the keyword/value form
URLForm == <<"postgres://", "app", ":">> \o Secret \o
           <<"@", "db.internal", ":", "6543", "/", "items">>
KVForm == KV(<<"db.internal">>, <<"app">>, Secret, <<"items">>, <<"6543">>, <<"require">>)

\* os.Getenv gives "" for a variable that is not set
Envs ==
    [DATABASE_URL : {<<>>, URLForm, KVForm},
     DB_HOST : {<<>>, <<"db.internal">>},
     DB_USER : {<<>>, <<"app">>},
     DB_PASSWORD : {<<>>, Secret},
     DB_NAME : {<<>>, <<"items">>},
     DB_PORT : {<<>>, <<"6543">>},
     SSL_MODE : {<<>>, <<"require">>}]

NoEnv ==
    [DATABASE_URL |-> <<>>, DB_HOST |-> <<>>, DB_USER |-> <<>>, DB_PASSWORD |-> <<>>,
     DB_NAME |-> <<>>, DB_PORT |-> <<>>, SSL_MODE |-> <<>>]

\* if v == "" { v = d }
OrDefault(v, d) == IF v = <<>> THEN <<d>> ELSE v

\* main.go connectDB, lines 35-67: the DSN it opens
connectDB_dsn(e) ==
    IF e.DATABASE_URL # <<>> THEN e.DATABASE_URL
    ELSE KV(OrDefault(e.DB_HOST, "localhost"), OrDefault(e.DB_USER, "postgres"),
            OrDefault(e.DB_PASSWORD, "postgres"), OrDefault(e.DB_NAME, "postgres"),
            OrDefault(e.DB_PORT, "5432"), OrDefault(e.SSL_MODE, "disable"))

\* database.go line 50
DefaultDSN ==
    KV(<<"localhost">>, <<"postgres">>, <<"postgres">>, <<"postgres">>, <<"5432">>,
       <<"disable">>)

\* database.go ConnectDB, lines 26-51: the DSN it opens
ConnectDB_dsn(e) ==
    LET d == IF e.DATABASE_URL # <<>> THEN e.DATABASE_URL
             ELSE KV(e.DB_HOST, e.DB_USER, e.DB_PASSWORD, e.DB_NAME,
                     OrDefault(e.DB_PORT, "5432"), OrDefault(e.SSL_MODE, "disable"))
    IN  IF d = <<>> THEN DefaultDSN ELSE d

\* database.go maskPassword
maskPassword(d) == Replace(d, <<"password=">>, <<"password=", "***">>)

\* url.Parse(dsn) and u.User.Password(): the part between ":" and "@" of a
\* string with a scheme; a keyword/value string parses to a path, no user
URLPassword(d) ==
    IF Len(d) >= 5 /\ d[1] = "postgres://" /\ d[3] = ":" /\ d[5] = "@" THEN <<d[4]>>
    ELSE <<>>

\* part_005 connectDB, lines 36-91: the DSN it opens and its local password
connectDB005_dsn(e) ==
    IF e.DATABASE_URL # <<>> THEN e.DATABASE_URL
    ELSE KV(OrDefault(e.DB_HOST, "localhost"), OrDefault(e.DB_USER, "postgres"),
            e.DB_PASSWORD, OrDefault(e.DB_NAME, "postgres"),
            OrDefault(e.DB_PORT, "5432"), OrDefault(e.SSL_MODE, "disable"))

connectDB005_password(e) ==
    IF e.DATABASE_URL # <<>> THEN URLPassword(e.DATABASE_URL) ELSE e.DB_PASSWORD

\* part_005 line 94
safeDSN(d, password) ==
    ReplaceAll(d, <<"password=">> \o password, <<"password=", "REDACTED">>)

\* ------------------------------------------------------------- connectDB
Outcomes == {"open_err", "db_err", "ping_err", "ok"}

\* a loop that runs once more
LoopCondOff(k) == k <= MaxAttempts + 1

\* the loop condition of connectDB
LoopCond(k) == k <= MaxAttempts

\* main.go with nothing configured, connectDB at its loop (line 69)
Init ==
    /\ mainPc = "connectDB"
    /\ i = 1
    /\ err = NilErr
    /\ tries = <<>>
    /\ connRet = <<"running", 0>>
    /\ db = "nil"
    /\ cache = "nil"
    /\ \E old \in {"none", "row", "row+entry", "row+blank"}, blank \in Blanks :
        /\ table = IF old = "none" THEN {} ELSE {OldRow}
        /\ seq = IF old = "none" THEN 1 ELSE 2
        /\ kv = [id \in Ids |-> IF id # OldRow.id THEN NoKey
                                 ELSE IF old = "row+entry" THEN Marshal(OldRow)
                                 ELSE IF old = "row+blank" THEN blank
                                 ELSE NoKey]
        /\ ttl = [id \in Ids |-> IF old \in {"row+entry", "row+blank"} /\ id = OldRow.id
                                  THEN TTL - 1 ELSE 0]
    /\ now = 1
    /\ reqs = [r \in ReqIds |-> IdleReq]
    /\ nreq = 0
    /\ prog = "main.go"
    /\ env = NoEnv
    /\ dsn = connectDB_dsn(NoEnv)
    /\ logged = {}

\* one iteration of connectDB's loop: gorm.Open, db.DB(), sqlDB.Ping().
\* The global db is assigned gorm.Open's first result whatever the error: a
\* handle when the open succeeded (also when DB() or the ping then fails),
\* and nil or a handle, as the library returns it, when the open failed.
ConnectDB_Attempt ==
    /\ mainPc = "connectDB"
    /\ LoopCond(i)
    /\ \E out \in Outcomes, h \in {"nil", "handle"} :
        /\ db' = IF out = "open_err" THEN h ELSE "handle"
        /\ tries' = Append(tries, out)
        /\ IF out = "ok"
           THEN /\ connRet' = NilErr
                /\ err' = NilErr
                /\ mainPc' = "connectCache"
                /\ i' = i
           ELSE /\ err' = <<out, i>>
                /\ i' = i + 1
                /\ UNCHANGED <<connRet, mainPc>>
    /\ UNCHANGED <<cfgVars, cache, table, seq, kv, ttl, now, reqs, nreq>>

\* the loop is over: return err
ConnectDB_Return ==
    /\ mainPc = "connectDB"
    /\ ~LoopCond(i)
    /\ connRet' = err
    /\ mainPc' = "connectCache"
    /\ UNCHANGED <<cfgVars, i, err, tries, db, cache, table, seq, kv, ttl, now, reqs, nreq>>

\* main: connectCache (redis.ParseURL, client.Ping), then the router runs.
\* connectDB's locals are gone by now; of what it returned main has tested
\* err != nil and logged it.
Main_ConnectCache ==
    /\ mainPc = "connectCache"
    /\ \E out \in {"parse_err", "ping_err", "ok"} :
        cache' = IF out = "ok" THEN "client" ELSE "nil"
    /\ mainPc' = "serve"
    /\ i' = 1
    /\ err' = NilErr
    /\ tries' = <<>>
    /\ connRet' = IF connRet = NilErr THEN NilErr ELSE <<"failed", 0>>
    /\ UNCHANGED <<cfgVars, db, table, seq, kv, ttl, now, reqs, nreq>>

startupVars == <<mainPc, i, err, tries, connRet, db, cache>>

\* -------------------------------------------------------------- getItems
\* getItems, were the store opened again by a handler that finds db nil
getItems_Reconnect(r) ==
    /\ CanStart(r)
    /\ nreq' = r
    /\ \E ok \in BOOLEAN, opened \in BOOLEAN :
        LET rec == Arrive(r, "list", 0, NoBody)
            res == dbFind(table, ok)
        IN  /\ db' = IF db = "nil" /\ opened THEN "handle" ELSE db
            /\ reqs' = [reqs EXCEPT ![r] =
                    IF db' # "nil"
                    THEN Respond([rec EXCEPT !.storeErr = res.err], r, 200, res.items)
                    ELSE Respond(rec, r, 200, {})]
    /\ UNCHANGED <<cfgVars, mainPc, i, err, tries, connRet, cache, table, seq, kv, ttl, now>>

\* lines 174-182: db.Find, its error not looked at
getItems(r) ==
    /\ CanStart(r)
    /\ nreq' = r
    /\ \E ok \in BOOLEAN :
        LET rec == Arrive(r, "list", 0, NoBody)
            res == dbFind(table, ok)
        IN  reqs' = [reqs EXCEPT ![r] =
                IF db # "nil"
                THEN Respond([rec EXCEPT !.storeErr = res.err], r, 200, res.items)
                ELSE Respond(rec, r, 200, {})]
    /\ UNCHANGED <<cfgVars, startupVars, table, seq, kv, ttl, now>>

\* ------------------------------------------------------------ createItem
createItem(r, body) ==
    /\ CanStart(r)
    /\ nreq' = r
    /\ LET rec == Arrive(r, "create", 0, body) IN
       IF body = Malformed
       THEN /\ reqs' = [reqs EXCEPT ![r] = Respond(rec, r, 400, {})]
            /\ UNCHANGED <<table, seq, now>>
       ELSE LET item == [Bind(ZeroItem, body) EXCEPT !.created = now, !.updated = now] IN
            /\ now' = now + 1
            /\ IF db # "nil"
               THEN /\ item.id = 0 => seq <= MaxId
                    /\ \E ok \in BOOLEAN :
                        LET res == dbCreate(table, seq, item, ok) IN
                        /\ table' = res.table
                        /\ seq' = res.seq
                        /\ reqs' = [reqs EXCEPT ![r] =
                             IF res.err
                             THEN Respond([rec EXCEPT !.storeErr = TRUE], r, 500, {})
                             ELSE Respond([rec EXCEPT !.item = res.item], r, 201,
                                          {Marshal(res.item)})]
               ELSE /\ reqs' = [reqs EXCEPT ![r] =
                             Respond([rec EXCEPT !.item = item], r, 201, {Marshal(item)})]
                    /\ UNCHANGED <<table, seq>>
    /\ UNCHANGED <<cfgVars, startupVars, kv, ttl>>

\* --------------------------------------------------------------- getItem
\* getItem, were the expiry of the entry renewed when it is hit
getItem_RefreshOnHit(r, id) ==
    /\ CanStart(r)
    /\ nreq' = r
    /\ \E ok \in BOOLEAN :
        LET rec == Arrive(r, "get", id, NoBody)
            res == cacheGet(kv, id, ok)
            rec2 == [rec EXCEPT !.cacheErr = (cache # "nil" /\ res.err = "error")]
        IN  /\ reqs' = [reqs EXCEPT ![r] =
                IF cache # "nil" /\ cacheHit(res) THEN Respond(rec2, r, 200, {res.val})
                ELSE IF db = "nil" THEN Respond(rec2, r, 404, {})
                ELSE [rec2 EXCEPT !.pc = "g_first"]]
            /\ ttl' = IF cache # "nil" /\ cacheHit(res) THEN cacheSetTTL(ttl, id, TRUE)
                      ELSE ttl
    /\ UNCHANGED <<cfgVars, startupVars, table, seq, kv, now>>

\* lines 206-221: the cache lookup, and the answer when there is no store
getItem(r, id) ==
    /\ CanStart(r)
    /\ nreq' = r
    /\ \E ok \in BOOLEAN :
        LET rec == Arrive(r, "get", id, NoBody)
            res == cacheGet(kv, id, ok)
            rec2 == [rec EXCEPT !.cacheErr = (cache # "nil" /\ res.err = "error")]
        IN  reqs' = [reqs EXCEPT ![r] =
                IF cache # "nil" /\ cacheHit(res) THEN Respond(rec2, r, 200, {res.val})
                ELSE IF db = "nil" THEN Respond(rec2, r, 404, {})
                ELSE [rec2 EXCEPT !.pc = "g_first"]]
    /\ UNCHANGED <<cfgVars, startupVars, table, seq, kv, ttl, now>>

\* lines 223-226: db.First, and the answer when there is no cache
getItem_First(r) ==
    /\ reqs[r].pc = "g_first"
    /\ \E ok \in BOOLEAN :
        LET res == dbFirst(table, reqs[r].id, ok)
            rec == [reqs[r] EXCEPT !.item = res.item, !.pre = res.item, !.storeErr = ~ok]
        IN  reqs' = [reqs EXCEPT ![r] =
                IF res.err THEN Respond(rec, r, 404, {})
                ELSE IF cache = "nil" THEN Respond(rec, r, 200, {Marshal(rec.item)})
                ELSE [rec EXCEPT !.pc = "g_set"]]
    /\ UNCHANGED <<cfgVars, startupVars, table, seq, kv, ttl, now, nreq>>

\* getItem_Set, were the error of cache.Set answered with a 500
getItem_SetSurfaced(r) ==
    /\ reqs[r].pc = "g_set"
    /\ \E ok \in BOOLEAN :
        /\ kv' = cacheSet(kv, reqs[r].id, Marshal(reqs[r].item), ok)
        /\ ttl' = cacheSetTTL(ttl, reqs[r].id, ok)
        /\ reqs' = [reqs EXCEPT ![r] =
                IF ok THEN Respond(@, r, 200, {Marshal(reqs[r].item)})
                ELSE Respond([@ EXCEPT !.cacheErr = TRUE], r, 500, {})]
    /\ UNCHANGED <<cfgVars, startupVars, table, seq, now, nreq>>

\* lines 228-234: cache.Set of the marshalled item, then the answer
getItem_Set(r) ==
    /\ reqs[r].pc = "g_set"
    /\ \E ok \in BOOLEAN :
        /\ kv' = cacheSet(kv, reqs[r].id, Marshal(reqs[r].item), ok)
        /\ ttl' = cacheSetTTL(ttl, reqs[r].id, ok)
        /\ reqs' = [reqs EXCEPT ![r] =
                Respond([@ EXCEPT !.cacheErr = @ \/ ~ok], r, 200, {Marshal(reqs[r].item)})]
    /\ UNCHANGED <<cfgVars, startupVars, table, seq, now, nreq>>

\* the entry's time-to-live (10 minutes) runs out, or redis evicts it
cacheExpire(id) ==
    /\ mainPc = "serve"
    /\ kv[id] # NoKey
    /\ kv' = [kv EXCEPT ![id] = NoKey]
    /\ ttl' = [ttl EXCEPT ![id] = 0]
    /\ UNCHANGED <<cfgVars, startupVars, table, seq, now, reqs, nreq>>

\* ------------------------------------------------------------ updateItem
\* updateItem, were the cache entry deleted before db.Save is called
updateItem_DelFirst(r, id, body) ==
    /\ CanStart(r)
    /\ nreq' = r
    /\ \E ok \in BOOLEAN :
        LET rec == Arrive(r, "update", id, body)
            res == dbFirst(table, id, ok)
            rec2 == [rec EXCEPT !.pre = res.item, !.storeErr = ~ok]
        IN  IF db = "nil" \/ res.err THEN
                /\ reqs' = [reqs EXCEPT ![r] = Respond(rec2, r, 404, {})]
                /\ UNCHANGED <<now, kv, ttl>>
            ELSE IF body = Malformed THEN
                /\ reqs' = [reqs EXCEPT ![r] = Respond(rec2, r, 400, {})]
                /\ UNCHANGED <<now, kv, ttl>>
            ELSE
                /\ reqs' = [reqs EXCEPT ![r] =
                        [rec2 EXCEPT !.pc = "u_save",
                                     !.item = [Bind(res.item, body) EXCEPT !.updated = now]]]
                /\ now' = now + 1
                /\ kv' = IF cache = "nil" THEN kv ELSE cacheDel(kv, id, TRUE)
                /\ ttl' = IF cache = "nil" THEN ttl ELSE cacheDelTTL(ttl, id, TRUE)
    /\ UNCHANGED <<cfgVars, startupVars, table, seq>>

\* updateItem, were the body bound before the row is looked up
updateItem_BindFirst(r, id, body) ==
    /\ CanStart(r)
    /\ nreq' = r
    /\ \E ok \in BOOLEAN :
        LET rec == Arrive(r, "update", id, body)
            res == dbFirst(table, id, ok)
            rec2 == [rec EXCEPT !.pre = res.item, !.storeErr = ~ok]
        IN  IF body = Malformed THEN
                /\ reqs' = [reqs EXCEPT ![r] = Respond(rec, r, 400, {})]
                /\ now' = now
            ELSE IF db = "nil" \/ res.err THEN
                /\ reqs' = [reqs EXCEPT ![r] = Respond(rec2, r, 404, {})]
                /\ now' = now
            ELSE
                /\ reqs' = [reqs EXCEPT ![r] =
                        [rec2 EXCEPT !.pc = "u_save",
                                     !.item = [Bind(res.item, body) EXCEPT !.updated = now]]]
                /\ now' = now + 1
    /\ UNCHANGED <<cfgVars, startupVars, table, seq, kv, ttl>>

\* lines 237-256: db.First, the binding of the body, time.Now()
updateItem(r, id, body) ==
    /\ CanStart(r)
    /\ nreq' = r
    /\ \E ok \in BOOLEAN :
        LET rec == Arrive(r, "update", id, body)
            res == dbFirst(table, id, ok)
            rec2 == [rec EXCEPT !.pre = res.item, !.storeErr = ~ok]
        IN  IF db = "nil" THEN
                /\ reqs' = [reqs EXCEPT ![r] = Respond(rec, r, 404, {})]
                /\ now' = now
            ELSE IF res.err THEN
                /\ reqs' = [reqs EXCEPT ![r] = Respond(rec2, r, 404, {})]
                /\ now' = now
            ELSE IF body = Malformed THEN
                /\ reqs' = [reqs EXCEPT ![r] = Respond(rec2, r, 400, {})]
                /\ now' = now
            ELSE
                /\ reqs' = [reqs EXCEPT ![r] =
                        [rec2 EXCEPT !.pc = "u_save",
                                     !.item = [Bind(res.item, body) EXCEPT !.updated = now]]]
                /\ now' = now + 1
    /\ UNCHANGED <<cfgVars, startupVars, table, seq, kv, ttl>>

\* line 257: db.Save(&item), its error not looked at
updateItem_Save(r) ==
    /\ reqs[r].pc = "u_save"
    /\ reqs[r].item.id = 0 => seq <= MaxId
    /\ \E ok \in BOOLEAN :
        LET res == dbSave(table, seq, reqs[r].item, ok)
            rec == [reqs[r] EXCEPT !.storeErr = res.err, !.item = res.item,
                                   !.mutated = TRUE]
        IN  /\ table' = res.table
            /\ seq' = res.seq
            /\ reqs' = [reqs EXCEPT ![r] =
                    IF cache = "nil" THEN Respond(rec, r, 200, {Marshal(rec.item)})
                    ELSE [rec EXCEPT !.pc = "u_del"]]
    /\ UNCHANGED <<cfgVars, startupVars, kv, ttl, now, nreq>>

\* lines 258-261: cache.Del, its error not looked at, then the answer
updateItem_Del(r) ==
    /\ reqs[r].pc = "u_del"
    /\ \E ok \in BOOLEAN :
        /\ kv' = cacheDel(kv, reqs[r].id, ok)
        /\ ttl' = cacheDelTTL(ttl, reqs[r].id, ok)
        /\ reqs' = [reqs EXCEPT ![r] =
                Respond([@ EXCEPT !.cacheErr = ~ok, !.inval = ok], r, 200,
                        {Marshal(reqs[r].item)})]
    /\ UNCHANGED <<cfgVars, startupVars, table, seq, now, nreq>>

\* ------------------------------------------------------------ deleteItem
\* lines 264-276: db.First
deleteItem(r, id) ==
    /\ CanStart(r)
    /\ nreq' = r
    /\ \E ok \in BOOLEAN :
        LET rec == Arrive(r, "delete", id, NoBody)
            res == dbFirst(table, id, ok)
            rec2 == [rec EXCEPT !.pre = res.item, !.item = res.item, !.storeErr = ~ok]
        IN  reqs' = [reqs EXCEPT ![r] =
                IF db = "nil" THEN Respond(rec, r, 404, {})
                ELSE IF res.err THEN Respond(rec2, r, 404, {})
                ELSE [rec2 EXCEPT !.pc = "d_delete"]]
    /\ UNCHANGED <<cfgVars, startupVars, table, seq, kv, ttl, now>>

\* line 278: db.Delete(&item), its error not looked at
deleteItem_Delete(r) ==
    /\ reqs[r].pc = "d_delete"
    /\ \E ok \in BOOLEAN :
        LET res == dbDelete(table, reqs[r].item, ok)
            rec == [reqs[r] EXCEPT !.storeErr = res.err, !.mutated = TRUE]
        IN  /\ table' = res.table
            /\ reqs' = [reqs EXCEPT ![r] =
                    IF cache = "nil" THEN Respond(rec, r, 204, {})
                    ELSE [rec EXCEPT !.pc = "d_del"]]
    /\ UNCHANGED <<cfgVars, startupVars, seq, kv, ttl, now, nreq>>

\* lines 279-282: cache.Del, its error not looked at, then the answer
deleteItem_Del(r) ==
    /\ reqs[r].pc = "d_del"
    /\ \E ok \in BOOLEAN :
        /\ kv' = cacheDel(kv, reqs[r].id, ok)
        /\ ttl' = cacheDelTTL(ttl, reqs[r].id, ok)
        /\ reqs' = [reqs EXCEPT ![r] =
                Respond([@ EXCEPT !.cacheErr = ~ok, !.inval = ok], r, 204, {})]
    /\ UNCHANGED <<cfgVars, startupVars, table, seq, now, nreq>>

Next ==
    \/ ConnectDB_Attempt
    \/ ConnectDB_Return
    \/ Main_ConnectCache
    \/ \E r \in ReqIds : getItems(r)
    \/ \E r \in ReqIds, body \in Bodies : createItem(r, body)
    \/ \E r \in ReqIds, id \in PathIds : getItem(r, id)
    \/ \E r \in ReqIds : getItem_First(r)
    \/ \E r \in ReqIds : getItem_Set(r)
    \/ \E id \in Ids : cacheExpire(id)
    \/ \E r \in ReqIds, id \in PathIds, body \in Bodies : updateItem(r, id, body)
    \/ \E r \in ReqIds : updateItem_Save(r)
    \/ \E r \in ReqIds : updateItem_Del(r)
    \/ \E r \in ReqIds, id \in PathIds : deleteItem(r, id)
    \/ \E r \in ReqIds : deleteItem_Delete(r)
    \/ \E r \in ReqIds : deleteItem_Del(r)

Spec == Init /\ [][Next]_vars

\* the process up to the point where the router runs
NextStart ==
    \/ ConnectDB_Attempt
    \/ ConnectDB_Return
    \/ Main_ConnectCache

SpecStart == Init /\ [][NextStart]_vars

\* ------------------------------------------------- the three start-ups
\* The repository holds three mains: main.go, part_005 (main.go with a logged
\* DSN and a TCP dial) and part_004, which calls database.ConnectDB. Each is
\* followed from the reading of the environment; part_005 up to the line that
\* logs its DSN, the other two up to the point where the router runs.
serveVars == <<table, seq, kv, ttl, now, reqs, nreq>>

\* main.go connectDB, lines 35-67
connectDB_Resolve ==
    /\ prog = "main.go"
    /\ mainPc = "env"
    /\ dsn' = connectDB_dsn(env)
    /\ mainPc' = "connectDB"
    /\ UNCHANGED <<prog, env, logged, i, err, tries, connRet, db, cache, serveVars>>

\* part_005 connectDB, lines 36-95
connectDB005_Resolve ==
    /\ prog = "part_005"
    /\ mainPc = "env"
    /\ dsn' = connectDB005_dsn(env)
    /\ logged' = logged \cup
            {<<"connectDB: attempting with DSN: ">> \o
                safeDSN(dsn', connectDB005_password(env))}
    /\ mainPc' = "dial"
    /\ UNCHANGED <<prog, env, i, err, tries, connRet, db, cache, serveVars>>

\* database.go ConnectDB, lines 26-53
ConnectDB_Resolve ==
    /\ prog = "part_004"
    /\ mainPc = "env"
    /\ dsn' = ConnectDB_dsn(env)
    /\ logged' = logged \cup {<<"Connecting to database with DSN: ">> \o maskPassword(dsn')}
    /\ mainPc' = "Open"
    /\ UNCHANGED <<prog, env, i, err, tries, connRet, db, cache, serveVars>>

\* database.go ConnectDB, lines 55-62: gorm.Open, log.Fatal on its error
\* (the process exits), else AutoMigrate and the return to part_004's main
ConnectDB_Open ==
    /\ prog = "part_004"
    /\ mainPc = "Open"
    /\ \E out \in {"open_err", "ok"}, h \in {"nil", "handle"} :
        /\ db' = IF out = "open_err" THEN h ELSE "handle"
        /\ err' = IF out = "ok" THEN NilErr ELSE <<out, 0>>
        /\ mainPc' = IF out = "ok" THEN "redis" ELSE "exit"
    /\ UNCHANGED <<cfgVars, i, tries, connRet, cache, serveVars>>

\* part_004 main, lines 32-47: redis.ParseURL, redis.NewClient, rdb.Ping,
\* log.Fatalf on either error
Main004_Redis ==
    /\ prog = "part_004"
    /\ mainPc = "redis"
    /\ \E out \in {"redis_parse_err", "redis_ping_err", "ok"} :
        /\ cache' = IF out = "redis_parse_err" THEN "nil" ELSE "client"
        /\ err' = IF out = "ok" THEN NilErr ELSE <<out, 0>>
        /\ mainPc' = IF out = "ok" THEN "serve" ELSE "exit"
    /\ UNCHANGED <<cfgVars, i, tries, connRet, db, serveVars>>

InitBoot ==
    /\ mainPc = "env"
    /\ prog \in {"main.go", "part_004", "part_005"}
    /\ env \in Envs
    /\ dsn = <<>>
    /\ logged = {}
    /\ i = 1
    /\ err = NilErr
    /\ tries = <<>>
    /\ connRet = <<"running", 0>>
    /\ db = "nil"
    /\ cache = "nil"
    /\ table = {}
    /\ seq = 1
    /\ kv = [id \in Ids |-> NoKey]
    /\ ttl = [id \in Ids |-> 0]
    /\ now = 1
    /\ reqs = [r \in ReqIds |-> IdleReq]
    /\ nreq = 0

NextBoot ==
    \/ connectDB_Resolve
    \/ connectDB005_Resolve
    \/ ConnectDB_Resolve
    \/ ConnectDB_Open
    \/ Main004_Redis
    \/ ConnectDB_Attempt
    \/ ConnectDB_Return
    \/ Main_ConnectCache

SpecBoot == InitBoot /\ [][NextBoot]_vars

\* ================================================================ claims
Done(r) == reqs[r].pc = "done"

\* request g arrived after u was answered, nothing else ran beside either
Follows(u, g) == g = u + 1 /\ Done(u) /\ reqs[u].solo /\ Done(g) /\ reqs[g].solo

\* C1: after Update(id, patch) has returned 200, the Get(id) that follows it
\* does not return the row as it was before the update. Stated for an update
\* whose body carries no other id and whose cache.Del did not fail.
C1_NoStaleReadAfterUpdate ==
    \A u \in ReqIds, g \in ReqIds :
        ( /\ Follows(u, g)
          /\ reqs[u].op = "update" /\ reqs[u].status = 200
          /\ reqs[u].item.id = reqs[u].id
          /\ ~reqs[u].cacheErr
          /\ reqs[g].op = "get" /\ reqs[g].id = reqs[u].id )
        => reqs[g].body # {Marshal(reqs[u].pre)}

\* C2: once an Update or Delete of id has written the store and deleted the
\* cache entry, the cache does not hold the row as it was before the mutation.
\* Stated for runs in which no call to the store or the cache has failed.
C2_NoStaleReinstated ==
    \A u \in ReqIds :
        ( /\ Done(u)
          /\ reqs[u].op \in {"update", "delete"}
          /\ reqs[u].status \in {200, 204}
          /\ reqs[u].inval
          /\ reqs[u].item.id = reqs[u].id
          /\ \A q \in ReqIds : ~reqs[q].storeErr /\ ~reqs[q].cacheErr )
        => kv[reqs[u].id] # Marshal(reqs[u].pre)

\* C3: a Get of the id a Create returned with 201, with no Update or Delete
\* issued, returns 200 and the value Create returned. Stated for a Get none
\* of whose calls to the store or the cache failed.
C3_GetReturnsCreated ==
    \A c \in ReqIds, g \in ReqIds :
        ( /\ c < g /\ Done(g)
          /\ reqs[c].op = "create" /\ reqs[c].status = 201
          /\ reqs[g].op = "get" /\ reqs[g].id = reqs[c].item.id
          /\ ~reqs[g].storeErr /\ ~reqs[g].cacheErr
          /\ \A m \in ReqIds : reqs[m].op \notin {"update", "delete"} )
        => reqs[g].status = 200 /\ reqs[g].body = reqs[c].body

\* C4: when connectDB returned an error, a Create answered 201 followed by
\* a Get of the created id is answered 200 with the created resource.
C4_DegradedCreateThenGet ==
    \A c \in ReqIds, g \in ReqIds :
        ( /\ mainPc = "serve" /\ connRet # NilErr
          /\ Follows(c, g)
          /\ reqs[c].op = "create" /\ reqs[c].status = 201
          /\ reqs[g].op = "get" /\ reqs[g].id = reqs[c].item.id
          /\ ~reqs[g].storeErr /\ ~reqs[g].cacheErr )
        => reqs[g].status = 200 /\ reqs[g].body = reqs[c].body

\* C5: without a store, two Creates whose bodies name no id return different
\* identifiers.
C5_DistinctIdsWithoutStore ==
    \A c \in ReqIds, d \in ReqIds :
        ( /\ db = "nil" /\ c # d
          /\ reqs[c].op = "create" /\ reqs[c].status = 201 /\ reqs[c].input.id = NoId
          /\ reqs[d].op = "create" /\ reqs[d].status = 201 /\ reqs[d].input.id = NoId )
        => reqs[c].item.id # reqs[d].item.id

\* C6: a Delete(id) that follows a Delete(id) answered 204 is answered 404.
C6_SecondDeleteNotFound ==
    \A d \in ReqIds, e \in ReqIds :
        ( /\ Follows(d, e)
          /\ reqs[d].op = "delete" /\ reqs[d].status = 204
          /\ reqs[e].op = "delete" /\ reqs[e].id = reqs[d].id )
        => reqs[e].status = 404

\* C7: a Get(id) that follows a Delete(id) answered 204 is answered 404.
\* Stated for a Delete whose cache.Del did not fail.
C7_GetAfterDeleteNotFound ==
    \A d \in ReqIds, g \in ReqIds :
        ( /\ Follows(d, g)
          /\ reqs[d].op = "delete" /\ reqs[d].status = 204
          /\ ~reqs[d].cacheErr
          /\ reqs[g].op = "get" /\ reqs[g].id = reqs[d].id )
        => reqs[g].status = 404

\* C8: an Update or Delete whose write to the store failed is not answered
\* 200 or 204.
C8_StoreFailureSurfaced ==
    \A r \in ReqIds :
        ( /\ Done(r)
          /\ reqs[r].op \in {"update", "delete"}
          /\ reqs[r].storeErr )
        => reqs[r].status \notin {200, 204}

\* the answer of the handler of rec when there is no cache: 404 without a
\* store or a row, else the row read (get), the item saved (update), 204 (delete)
AnswerWithoutCache(rec) ==
    IF db = "nil" \/ rec.pre = ZeroItem THEN [status |-> 404, body |-> {}]
    ELSE IF rec.op = "delete" THEN [status |-> 204, body |-> {}]
    ELSE IF rec.op = "update" THEN [status |-> 200, body |-> {Marshal(rec.item)}]
    ELSE [status |-> 200, body |-> {Marshal(rec.pre)}]

\* C9: a Get, Update or Delete during which a call to the cache failed is
\* answered as it is when there is no cache.
C9_CacheErrorsNotSurfaced ==
    \A r \in ReqIds :
        ( /\ Done(r)
          /\ reqs[r].op \in {"get", "update", "delete"}
          /\ reqs[r].cacheErr )
        => /\ reqs[r].status = AnswerWithoutCache(reqs[r]).status
           /\ reqs[r].body = AnswerWithoutCache(reqs[r]).body

\* a Get whose cache.Get failed, then read the row and whose cache.Set failed
\* or not, answered 200; and a Delete whose cache.Del failed, answered 204
C9_Witness ==
    \E r \in ReqIds, q \in ReqIds :
        /\ Done(r) /\ reqs[r].op = "get" /\ reqs[r].cacheErr /\ reqs[r].status = 200
        /\ Done(q) /\ reqs[q].op = "delete" /\ reqs[q].cacheErr /\ reqs[q].status = 204

\* C10: connectDB makes at most 3 attempts, none after one that succeeded;
\* it returns nil at the first attempt whose open, DB() and ping succeed, and
\* an error only after 3 failed attempts, the error of the third.
C10_ConnectDBAttempts ==
    /\ Len(tries) <= 3
    /\ \A k \in 1..(Len(tries) - 1) : tries[k] # "ok"
    /\ mainPc = "connectDB" => \A k \in 1..Len(tries) : tries[k] # "ok"
    /\ (mainPc = "connectCache" /\ connRet = NilErr) =>
            Len(tries) >= 1 /\ tries[Len(tries)] = "ok"
    /\ (mainPc = "connectCache" /\ connRet # NilErr) =>
            /\ Len(tries) = 3
            /\ \A k \in 1..3 : tries[k] # "ok"
            /\ connRet = <<tries[3], 3>>

\* connectDB has returned the error of its third attempt, a failed ping,
\* after an open that failed and a DB() that failed
C10_Witness ==
    /\ mainPc = "connectCache"
    /\ tries = <<"open_err", "db_err", "ping_err">>
    /\ connRet = <<"ping_err", 3>>

\* C11: connecting the store never terminates the process: whatever the
\* outcome of gorm.Open, main.go connectDB and database.go ConnectDB return
\* to main, which goes on to serve.
C11_StoreNeverFatal == ~(mainPc = "exit" /\ err = <<"open_err", 0>>)

\* C12: a cache whose URL does not parse or that does not answer the ping
\* never terminates the process.
C12_CacheNeverFatal ==
    ~(mainPc = "exit" /\ err \in {<<"redis_parse_err", 0>>, <<"redis_ping_err", 0>>})

\* C13: no line logged while connecting contains the configured password.
C13_NoPasswordLogged == \A line \in logged : ~Contains(line, Secret)

\* the Connection Target of the settings e: DATABASE_URL when set, else every
\* field its setting when set and its development default when not
ResolvedTarget(e) ==
    IF e.DATABASE_URL # <<>> THEN e.DATABASE_URL
    ELSE KV(IF e.DB_HOST # <<>> THEN e.DB_HOST ELSE <<"localhost">>,
            IF e.DB_USER # <<>> THEN e.DB_USER ELSE <<"postgres">>,
            IF e.DB_PASSWORD # <<>> THEN e.DB_PASSWORD ELSE <<"postgres">>,
            IF e.DB_NAME # <<>> THEN e.DB_NAME ELSE <<"postgres">>,
            IF e.DB_PORT # <<>> THEN e.DB_PORT ELSE <<"5432">>,
            IF e.SSL_MODE # <<>> THEN e.SSL_MODE ELSE <<"disable">>)

\* C14: the DSN that main.go connectDB and database.go ConnectDB open is the
\* Connection Target of the settings.
C14_TargetResolution ==
    (prog \in {"main.go", "part_004"} /\ mainPc # "env") => dsn = ResolvedTarget(env)

\* C15: created_at is immutable: the row an Update has written has the
\* created_at of the row it read. Stated for an Update whose body names no
\* id and whose db.Save did not fail.
C15_CreatedAtImmutable ==
    \A u \in ReqIds :
        ( /\ Done(u)
          /\ reqs[u].op = "update" /\ reqs[u].status = 200
          /\ reqs[u].input.id = NoId
          /\ ~reqs[u].storeErr )
        => reqs[u].item.created = reqs[u].pre.created

\* C16: a step of an Update or Delete handler changes the cache only when
\* the handler has issued its store mutation in an earlier step.
C16_InvalidateAfterMutation ==
    [][\A r \in ReqIds :
        ( /\ reqs'[r] # reqs[r]
          /\ reqs'[r].op \in {"update", "delete"}
          /\ kv' # kv )
        => reqs[r].mutated]_vars

\* an Update and a Delete have been answered, each having called db.Save or
\* db.Delete and then deleted the cache entry
C16_Witness ==
    \E u \in ReqIds, d \in ReqIds :
        /\ Done(u) /\ reqs[u].op = "update" /\ reqs[u].mutated /\ reqs[u].inval
        /\ Done(d) /\ reqs[d].op = "delete" /\ reqs[d].mutated /\ reqs[d].inval
        /\ kv[reqs[u].id] = NoKey

\* C17: when connectDB has returned an error the handlers run with db nil.
C17_DbNilOnError == (mainPc = "serve" /\ connRet # NilErr) => db = "nil"

\* C18: the record an Update writes has the identifier of the path.
C18_UpdateOnlyPathId ==
    \A u \in ReqIds :
        ( /\ Done(u)
          /\ reqs[u].op = "update" /\ reqs[u].status = 200
          /\ ~reqs[u].storeErr )
        => reqs[u].item.id = reqs[u].id

\* C19: an Update or Delete that arrives for an id with no row in the store
\* is answered 404 in that step, whatever the body, and the store and the
\* cache are left as they were.
C19_AbsentIdNotFound ==
    [][\A r \in ReqIds :
        ( /\ reqs[r].pc = "idle" /\ reqs'[r].pc # "idle"
          /\ reqs'[r].op \in {"update", "delete"}
          /\ Row(table, reqs'[r].id) = {} )
        => /\ reqs'[r].pc = "done" /\ reqs'[r].status = 404
           /\ table' = table /\ seq' = seq /\ kv' = kv]_vars

\* with a store, an Update with a malformed body and a Delete, each of an id
\* db.First found no row for, have been answered 404
C19_Witness ==
    \E u \in ReqIds, d \in ReqIds :
        /\ db # "nil"
        /\ Done(u) /\ reqs[u].op = "update" /\ reqs[u].input = Malformed
        /\ ~reqs[u].storeErr /\ reqs[u].status = 404
        /\ Done(d) /\ reqs[d].op = "delete"
        /\ ~reqs[d].storeErr /\ reqs[d].status = 404

\* the answer to Get(id) of a service without a cache
AnswerFromStore(id) ==
    IF db = "nil" \/ Row(table, id) = {} THEN [status |-> 404, body |-> {}]
    ELSE [status |-> 200, body |-> {Marshal(CHOOSE x \in Row(table, id) : TRUE)}]

\* C20: the cache is no source of truth: in a run where the requests come one
\* after the other and no call to the store or the cache fails, the last Get
\* is answered as a service without a cache answers it.
C20_CacheNotSourceOfTruth ==
    \A g \in ReqIds :
        ( /\ Done(g) /\ nreq = g /\ reqs[g].solo
          /\ reqs[g].op = "get"
          /\ \A q \in ReqIds : reqs[q].solo \/ reqs[q].pc = "idle"
          /\ \A q \in ReqIds : ~reqs[q].storeErr /\ ~reqs[q].cacheErr )
        => /\ reqs[g].status = AnswerFromStore(reqs[g].id).status
           /\ reqs[g].body = AnswerFromStore(reqs[g].id).body

\* C21: a step of a Get leaves the store as it was, and changes the cache
\* only after its db.First has succeeded: it then puts the row read under
\* item:<id> with 10 minutes to live. A Get answered 404 and a Get answered
\* from the cache leave the cache, expiry included, as it was.
C21_GetWritesAfterRead ==
    [][\A r \in ReqIds :
        (reqs'[r] # reqs[r] /\ reqs'[r].op = "get") =>
            /\ table' = table /\ seq' = seq
            /\ (kv' # kv \/ ttl' # ttl) =>
                    /\ reqs[r].pre # ZeroItem /\ ~reqs[r].storeErr
                    /\ kv' = [kv EXCEPT ![reqs[r].id] = Marshal(reqs[r].pre)]
                    /\ ttl' = [ttl EXCEPT ![reqs[r].id] = TTL]
            /\ (reqs'[r].pc = "done" /\ reqs'[r].status = 404) =>
                    kv' = kv /\ ttl' = ttl
            /\ (reqs[r].pc = "idle" /\ reqs'[r].pc = "done") =>
                    kv' = kv /\ ttl' = ttl]_vars

\* a Get has read its row from the store and put it in the cache with 10
\* minutes to live, and the Get after it has been answered from the cache
C21_Witness ==
    \E g \in ReqIds, h \in ReqIds :
        /\ Follows(g, h)
        /\ reqs[g].op = "get" /\ reqs[g].status = 200 /\ reqs[g].pre # ZeroItem
        /\ ~reqs[g].cacheErr
        /\ kv[reqs[g].id] = Marshal(reqs[g].pre) /\ ttl[reqs[g].id] = TTL
        /\ reqs[h].op = "get" /\ reqs[h].id = reqs[g].id
        /\ reqs[h].status = 200 /\ reqs[h].pre = ZeroItem

\* C22: a Get that arrives with the cache present is answered 200 with the
\* very value under item:<id> when that value is not blank and the read
\* succeeds, the store not being read, with or without a store; when the
\* value is blank or the read fails the handler goes on to the store.
C22_CacheHitVerbatim ==
    [][\A r \in ReqIds :
        ( /\ reqs[r].pc = "idle" /\ reqs'[r].pc # "idle"
          /\ reqs'[r].op = "get"
          /\ cache # "nil" ) =>
            LET entry == IF reqs'[r].id \in Ids THEN kv[reqs'[r].id] ELSE NoKey IN
            /\ (entry \notin {NoKey} \cup Blanks /\ ~reqs'[r].cacheErr) =>
                    /\ reqs'[r].pc = "done" /\ reqs'[r].status = 200
                    /\ reqs'[r].body = {entry}
                    /\ reqs'[r].pre = ZeroItem /\ ~reqs'[r].storeErr
            /\ (entry \in Blanks \/ reqs'[r].cacheErr) =>
                    IF db = "nil"
                    THEN reqs'[r].pc = "done" /\ reqs'[r].status = 404
                    ELSE reqs'[r].pc = "g_first"]_vars

\* without a store, a Get has been answered 200 with the value in the cache
C22_Witness ==
    \E g \in ReqIds :
        /\ db = "nil" /\ cache # "nil"
        /\ Done(g) /\ reqs[g].op = "get" /\ reqs[g].status = 200
        /\ reqs[g].id \in Ids
        /\ kv[reqs[g].id] \notin {NoKey} \cup Blanks
        /\ reqs[g].body = {kv[reqs[g].id]}

\* C23: once main has connected the store and the cache and serves, no step
\* assigns db or cache or makes another connection attempt: the store mode
\* and the cache mode stay what they were when serving began.
C23_ModesFixedAfterStartup ==
    [][mainPc = "serve" =>
        /\ mainPc' = "serve"
        /\ db' = db /\ cache' = cache
        /\ tries' = tries /\ connRet' = connRet]_vars

\* every request has been answered, a List and a Create among them, by a
\* service that started without its store and still has none
C23_Witness ==
    /\ mainPc = "serve" /\ connRet # NilErr /\ db = "nil"
    /\ \A r \in ReqIds : Done(r)
    /\ \E r \in ReqIds : reqs[r].op = "list"
    /\ \E r \in ReqIds : reqs[r].op = "create" /\ reqs[r].status = 201
====
